---- MODULE Spec2Model ----
(***************************************************************************)
(* Model of jedi/evaluate/recursion.py: the statement recursion guard      *)
(* (RecursionDetector, _RecursionNode, recursion_decorator) and the        *)
(* execution recursion guard (ExecutionRecursionDetector).                 *)
(*                                                                         *)
(* The functions of the source are operators on values (a guard state in,  *)
(* a guard state and a return value out); the actions apply them to the    *)
(* variables, one action per call.                                         *)
(***************************************************************************)
EXTENDS Integers, Sequences, FiniteSets, TLC

(* ------------------------------ bounds --------------------------------- *)
\* Longest ancestry chain the statement guard is driven to.
MaxChain == 3
\* Source positions of statements are 1..NumPositions in each module.
NumPositions == 2
\* settings.max_function_recursion_level and max_until_execution_unique are
\* drawn from 1..MaxBudget.
MaxBudget == 2
\* settings.max_executions and max_executions_without_builtins are drawn from
\* 1..MaxExecutions.
MaxExecutions == 3
\* Deepest nesting the execution guard is driven to.
MaxLevel == 3
\* push_execution is not called any more once execution_count reaches this.
MaxCount == 4
\* Number of distinct plain function targets.
NumFuncs == 2
\* Deepest nesting of wrapped statement evaluations.
MaxFrames == 3
\* Deepest nesting each guard of the two further evaluators is driven to.
MaxNest == 1

(* --------------------------- the environment --------------------------- *)
\* compiled.builtin, the builtin module (recursion.py:80, :137).
builtin == "builtin"
\* What stmt.get_parent_until() / execution.get_parent_until() can return.
Modules == {builtin, "mod_a", "mod_b"}
\* A statement as the guard reads it: its module and its start_pos.
Stmts == [script : Modules, start_pos : 1..NumPositions]
\* None, for a return value, a node or an argument that is absent.
None == "None"

VARIABLES
    current,                 \* RecursionDetector: the chain root..current node
    recursion_level,         \* ExecutionRecursionDetector.recursion_level
    parent_execution_funcs,  \* ExecutionRecursionDetector.parent_execution_funcs
    execution_funcs,         \* ExecutionRecursionDetector.execution_funcs
    execution_count,         \* ExecutionRecursionDetector.execution_count
    settings,                \* jedi.settings, the four budgets
    frames,                  \* call stack of the decorators' run()
    last,                    \* the last call made: name, argument, outcome
    threads,                 \* per thread: the statements it has in progress
    owners,                  \* for each node of the chain: the thread that pushed it
    evaluators,              \* two more evaluators: the attributes of their guards
    heap,                    \* the list and set objects those attributes refer to
    budgets_at_construction  \* jedi.settings as it was at the last __init__

vars == <<current, recursion_level, parent_execution_funcs, execution_funcs,
          execution_count, settings, frames, last, threads, owners,
          evaluators, heap, budgets_at_construction>>

\* The record of a call: its name and argument, the depth of the guard (chain
\* length, or length of the path stack) when it was made, the value returned,
\* the exception raised and the warnings logged.
NoCall == [op |-> "init", arg |-> None, before |-> 0, ret |-> None,
           exc |-> None, warnings |-> <<>>]

Call(op, arg, before, ret, exc, warnings) ==
    [op |-> op, arg |-> arg, before |-> before, ret |-> ret, exc |-> exc,
     warnings |-> warnings]

(* ----------------------- the statement guard --------------------------- *)
\* _RecursionNode.__init__. The parent link is the node's place in the
\* chain: the parent of current[i] is current[i-1], and current[1] has
\* parent None.
RecursionNode(stmt) ==
    [script     |-> stmt.script,
     position   |-> stmt.start_pos,
     stmt       |-> stmt,
     is_ignored |-> (stmt.script = builtin)]

\* Mutant of __eq__: the is_ignored exemption of lines 80 and 88 is left out.
RecursionNode_eq_not_exempt(self, other) ==
    /\ self.script = other.script
    /\ self.position = other.position

\* _RecursionNode.__eq__ for two nodes (other is not None).
RecursionNode_eq(self, other) ==
    /\ self.script = other.script
    /\ self.position = other.position
    /\ ~ self.is_ignored
    /\ ~ other.is_ignored

\* Mutant of the loop: only the immediate parent is compared.
check_loop_parent_only(chain, test) ==
    LET parent == test - 1 IN
    IF parent # 0 /\ RecursionNode_eq(chain[Len(chain)], chain[parent])
        THEN parent
        ELSE 0

\* The loop of _check_recursion: test is the index of the node held by the
\* loop variable; 0 stands for None. Returns the index of the ancestor found
\* equal to the current node, or 0 for False.
RECURSIVE check_loop(_, _)
check_loop(chain, test) ==
    LET parent == test - 1 IN
    IF parent = 0
        THEN 0
        ELSE IF RecursionNode_eq(chain[Len(chain)], chain[parent])
                THEN parent
                ELSE check_loop(chain, parent)

\* RecursionDetector._check_recursion, called with a current node.
_check_recursion(chain) == check_loop(chain, Len(chain))

\* Mutant of pop_stmt: the "is not None" test of line 45 is left out, so that
\* None.parent is read when there is no current node.
pop_stmt_unguarded(chain) ==
    IF chain # <<>>
        THEN [chain |-> SubSeq(chain, 1, Len(chain) - 1), exc |-> None]
        ELSE [chain |-> chain, exc |-> "AttributeError"]

\* RecursionDetector.pop_stmt: the chain it leaves and the exception it
\* raises (None: it returns normally).
pop_stmt(chain) ==
    IF chain # <<>>
        THEN [chain |-> SubSeq(chain, 1, Len(chain) - 1), exc |-> None]
        ELSE [chain |-> chain, exc |-> None]

\* The debug.warning call of lines 38-39: its three arguments after the
\* format string, and the place in the chain of the node that self.current is
\* when the call is made.
warning(stmt, against, chain) ==
    [args    |-> <<stmt, against, stmt.start_pos>>,
     current |-> Len(chain)]

\* Mutant of push_stmt: the self.pop_stmt() of line 40 is called before the
\* debug.warning of lines 38-39.
push_stmt_pop_first(chain, stmt) ==
    LET pushed == Append(chain, RecursionNode(stmt))
        check  == _check_recursion(pushed)
        popped == pop_stmt(pushed).chain
    IN  IF check # 0
            THEN [chain    |-> popped,
                  ret      |-> TRUE,
                  warnings |-> <<warning(stmt, pushed[check].stmt, popped)>>]
            ELSE [chain    |-> pushed,
                  ret      |-> FALSE,
                  warnings |-> <<>>]

\* Mutant of push_stmt: the self.pop_stmt() of line 40 is left out.
push_stmt_no_pop(chain, stmt) ==
    LET pushed == Append(chain, RecursionNode(stmt))
        check  == _check_recursion(pushed)
    IN  IF check # 0
            THEN [chain    |-> pushed,
                  ret      |-> TRUE,
                  warnings |-> <<warning(stmt, pushed[check].stmt, pushed)>>]
            ELSE [chain    |-> pushed,
                  ret      |-> FALSE,
                  warnings |-> <<>>]

\* RecursionDetector.push_stmt: the chain it leaves, the value it returns and
\* the debug.warning calls it makes.
push_stmt(chain, stmt) ==
    LET pushed == Append(chain, RecursionNode(stmt))
        check  == _check_recursion(pushed)
    IN  IF check # 0
            THEN [chain    |-> pop_stmt(pushed).chain,
                  ret      |-> TRUE,
                  warnings |-> <<warning(stmt, pushed[check].stmt, pushed)>>]
            ELSE [chain    |-> pushed,
                  ret      |-> FALSE,
                  warnings |-> <<>>]

\* Mutant of the loop: result.append(n.stmt) in the place of
\* result.insert(0, n.stmt), so that the newest statement comes first.
RECURSIVE node_statements_loop_append(_, _, _)
node_statements_loop_append(chain, n, result) ==
    IF n = 0
        THEN result
        ELSE node_statements_loop_append(chain, n - 1,
                                         result \o <<chain[n].stmt>>)

\* RecursionDetector.node_statements: the loop inserts each statement at the
\* front while walking from the current node to the root.
RECURSIVE node_statements_loop(_, _, _)
node_statements_loop(chain, n, result) ==
    IF n = 0
        THEN result
        ELSE node_statements_loop(chain, n - 1, <<chain[n].stmt>> \o result)

node_statements(chain) == node_statements_loop(chain, Len(chain), <<>>)

(* ----------------------- the execution guard --------------------------- *)
\* execution.base: a plain function, or an instance of iterable.Array or of
\* iterable.Generator (the isinstance test of line 134 reads the kind).
\* Each base lies in one module: NumFuncs functions of a user module, one
\* function of the builtin module, one Array and one Generator.
Funcs == [kind : {"Function"}, name : 1..NumFuncs, module : {"mod_a"}]
BuiltinFuncs == [kind : {"Function"}, name : {1}, module : {builtin}]
Containers == [kind : {"Array", "Generator"}, name : {1}, module : {"mod_a"}]
Bases == Funcs \cup BuiltinFuncs \cup Containers

\* An execution as the guard reads it: its base.
Executions == [base : Bases]

\* execution.get_parent_until(): the module the executed base lies in.
get_parent_until(execution) == execution.base.module

\* The four attributes of an ExecutionRecursionDetector, as one value.
Detector(level, parents, funcs, count) ==
    [recursion_level        |-> level,
     parent_execution_funcs |-> parents,
     execution_funcs        |-> funcs,
     execution_count        |-> count]

\* ExecutionRecursionDetector.__init__.
NewDetector == Detector(0, <<>>, {}, 0)

\* x in a_list.
InList(x, list) == \E i \in 1..Len(list) : list[i] = x

\* Mutant of pop_execution: lines 120 and 121 swapped, so that recursion_level
\* is decremented before list.pop() raises.
pop_execution_decrement_first(self) ==
    IF self.parent_execution_funcs = <<>>
        THEN [self |-> Detector(self.recursion_level - 1,
                                self.parent_execution_funcs,
                                self.execution_funcs,
                                self.execution_count),
              exc  |-> "IndexError"]
        ELSE [self |-> Detector(self.recursion_level - 1,
                                SubSeq(self.parent_execution_funcs, 1,
                                       Len(self.parent_execution_funcs) - 1),
                                self.execution_funcs,
                                self.execution_count),
              exc  |-> None]

\* Mutant of pop_execution: execution_count is decremented with
\* recursion_level.
pop_execution_uncounts(self) ==
    IF self.parent_execution_funcs = <<>>
        THEN [self |-> self, exc |-> "IndexError"]
        ELSE [self |-> Detector(self.recursion_level - 1,
                                SubSeq(self.parent_execution_funcs, 1,
                                       Len(self.parent_execution_funcs) - 1),
                                self.execution_funcs,
                                self.execution_count - 1),
              exc  |-> None]

\* Mutant of pop_execution: pop(0) in the place of pop(), so that the oldest
\* target of the path is removed.
pop_execution_first(self) ==
    IF self.parent_execution_funcs = <<>>
        THEN [self |-> self, exc |-> "IndexError"]
        ELSE [self |-> Detector(self.recursion_level - 1,
                                SubSeq(self.parent_execution_funcs, 2,
                                       Len(self.parent_execution_funcs)),
                                self.execution_funcs,
                                self.execution_count),
              exc  |-> None]

\* Mutant of pop_execution: the target popped from the path stack is also
\* discarded from execution_funcs.
pop_execution_forgets(self) ==
    IF self.parent_execution_funcs = <<>>
        THEN [self |-> self, exc |-> "IndexError"]
        ELSE [self |-> Detector(self.recursion_level - 1,
                                SubSeq(self.parent_execution_funcs, 1,
                                       Len(self.parent_execution_funcs) - 1),
                                self.execution_funcs
                                    \ {self.parent_execution_funcs[
                                          Len(self.parent_execution_funcs)]},
                                self.execution_count),
              exc  |-> None]

\* ExecutionRecursionDetector.pop_execution: list.pop() raises IndexError on
\* an empty list, before recursion_level is decremented.
pop_execution(self) ==
    IF self.parent_execution_funcs = <<>>
        THEN [self |-> self, exc |-> "IndexError"]
        ELSE [self |-> Detector(self.recursion_level - 1,
                                SubSeq(self.parent_execution_funcs, 1,
                                       Len(self.parent_execution_funcs) - 1),
                                self.execution_funcs,
                                self.execution_count),
              exc  |-> None]

\* Mutant of the return statements: the exemptions of lines 134-138 are
\* tested before the max_executions test of line 131.
push_execution_result_exempt_first(self, execution, budgets, in_par_execution_funcs, in_execution_funcs) ==
    IF execution.base.kind \in {"Array", "Generator"}
        THEN FALSE
    ELSE IF get_parent_until(execution) = builtin
        THEN FALSE
    ELSE IF self.execution_count > budgets.max_executions
        THEN TRUE
    ELSE IF /\ in_par_execution_funcs
            /\ self.recursion_level > budgets.max_function_recursion_level
        THEN TRUE
    ELSE IF /\ in_execution_funcs
            /\ Cardinality(self.execution_funcs)
                    > budgets.max_until_execution_unique
        THEN TRUE
    ELSE self.execution_count > budgets.max_executions_without_builtins

\* Mutant of the return statements: line 140 compares with >= instead of >.
push_execution_result_depth_ge(self, execution, budgets, in_par_execution_funcs, in_execution_funcs) ==
    IF self.execution_count > budgets.max_executions
        THEN TRUE
    ELSE IF execution.base.kind \in {"Array", "Generator"}
        THEN FALSE
    ELSE IF get_parent_until(execution) = builtin
        THEN FALSE
    ELSE IF /\ in_par_execution_funcs
            /\ self.recursion_level >= budgets.max_function_recursion_level
        THEN TRUE
    ELSE IF /\ in_execution_funcs
            /\ Cardinality(self.execution_funcs)
                    > budgets.max_until_execution_unique
        THEN TRUE
    ELSE self.execution_count > budgets.max_executions_without_builtins

\* Mutant of the return statements: line 142 reads in_par_execution_funcs
\* where it should read in_execution_funcs.
push_execution_result_breadth_on_path(self, execution, budgets, in_par_execution_funcs, in_execution_funcs) ==
    IF self.execution_count > budgets.max_executions
        THEN TRUE
    ELSE IF execution.base.kind \in {"Array", "Generator"}
        THEN FALSE
    ELSE IF get_parent_until(execution) = builtin
        THEN FALSE
    ELSE IF /\ in_par_execution_funcs
            /\ self.recursion_level > budgets.max_function_recursion_level
        THEN TRUE
    ELSE IF /\ in_par_execution_funcs
            /\ Cardinality(self.execution_funcs)
                    > budgets.max_until_execution_unique
        THEN TRUE
    ELSE self.execution_count > budgets.max_executions_without_builtins

\* Mutant of the return statements: line 145 compares with >= instead of >.
push_execution_result_without_builtins_ge(self, execution, budgets, in_par_execution_funcs, in_execution_funcs) ==
    IF self.execution_count > budgets.max_executions
        THEN TRUE
    ELSE IF execution.base.kind \in {"Array", "Generator"}
        THEN FALSE
    ELSE IF get_parent_until(execution) = builtin
        THEN FALSE
    ELSE IF /\ in_par_execution_funcs
            /\ self.recursion_level > budgets.max_function_recursion_level
        THEN TRUE
    ELSE IF /\ in_execution_funcs
            /\ Cardinality(self.execution_funcs)
                    > budgets.max_until_execution_unique
        THEN TRUE
    ELSE self.execution_count >= budgets.max_executions_without_builtins

\* Mutant of the return statements: the builtin module test of lines 136-138
\* is left out.
push_execution_result_builtin_not_exempt(self, execution, budgets, in_par_execution_funcs, in_execution_funcs) ==
    IF self.execution_count > budgets.max_executions
        THEN TRUE
    ELSE IF execution.base.kind \in {"Array", "Generator"}
        THEN FALSE
    ELSE IF /\ in_par_execution_funcs
            /\ self.recursion_level > budgets.max_function_recursion_level
        THEN TRUE
    ELSE IF /\ in_execution_funcs
            /\ Cardinality(self.execution_funcs)
                    > budgets.max_until_execution_unique
        THEN TRUE
    ELSE self.execution_count > budgets.max_executions_without_builtins

\* Mutant of the return statements: line 131 compares with >= instead of >.
push_execution_result_count_ge(self, execution, budgets, in_par_execution_funcs, in_execution_funcs) ==
    IF self.execution_count >= budgets.max_executions
        THEN TRUE
    ELSE IF execution.base.kind \in {"Array", "Generator"}
        THEN FALSE
    ELSE IF get_parent_until(execution) = builtin
        THEN FALSE
    ELSE IF /\ in_par_execution_funcs
            /\ self.recursion_level > budgets.max_function_recursion_level
        THEN TRUE
    ELSE IF /\ in_execution_funcs
            /\ Cardinality(self.execution_funcs)
                    > budgets.max_until_execution_unique
        THEN TRUE
    ELSE self.execution_count > budgets.max_executions_without_builtins

\* Mutant of the return statements: line 140 tests the depth alone, without
\* in_par_execution_funcs.
push_execution_result_depth_any(self, execution, budgets, in_par_execution_funcs, in_execution_funcs) ==
    IF self.execution_count > budgets.max_executions
        THEN TRUE
    ELSE IF execution.base.kind \in {"Array", "Generator"}
        THEN FALSE
    ELSE IF get_parent_until(execution) = builtin
        THEN FALSE
    ELSE IF self.recursion_level > budgets.max_function_recursion_level
        THEN TRUE
    ELSE IF /\ in_execution_funcs
            /\ Cardinality(self.execution_funcs)
                    > budgets.max_until_execution_unique
        THEN TRUE
    ELSE self.execution_count > budgets.max_executions_without_builtins

\* Mutant of the return statements: the depth test of lines 140-141 is left
\* out.
push_execution_result_no_depth(self, execution, budgets, in_par_execution_funcs, in_execution_funcs) ==
    IF self.execution_count > budgets.max_executions
        THEN TRUE
    ELSE IF execution.base.kind \in {"Array", "Generator"}
        THEN FALSE
    ELSE IF get_parent_until(execution) = builtin
        THEN FALSE
    ELSE IF /\ in_execution_funcs
            /\ Cardinality(self.execution_funcs)
                    > budgets.max_until_execution_unique
        THEN TRUE
    ELSE self.execution_count > budgets.max_executions_without_builtins

\* The return statements of push_execution (lines 131-145), given the two
\* memberships read at its start and the detector as updated by lines 126-129.
push_execution_result(self, execution, budgets, in_par_execution_funcs, in_execution_funcs) ==
    IF self.execution_count > budgets.max_executions
        THEN TRUE
    ELSE IF execution.base.kind \in {"Array", "Generator"}
        THEN FALSE
    ELSE IF get_parent_until(execution) = builtin
        THEN FALSE
    ELSE IF /\ in_par_execution_funcs
            /\ self.recursion_level > budgets.max_function_recursion_level
        THEN TRUE
    ELSE IF /\ in_execution_funcs
            /\ Cardinality(self.execution_funcs)
                    > budgets.max_until_execution_unique
        THEN TRUE
    ELSE self.execution_count > budgets.max_executions_without_builtins

\* Mutant of push_execution: the max_executions test is made first and
\* returns before the target is recorded.
push_execution_test_first(self, execution, budgets) ==
    LET in_par_execution_funcs ==
            InList(execution.base, self.parent_execution_funcs)
        in_execution_funcs == execution.base \in self.execution_funcs
        updated ==
            Detector(self.recursion_level + 1,
                     Append(self.parent_execution_funcs, execution.base),
                     self.execution_funcs \cup {execution.base},
                     self.execution_count + 1)
    IN  IF self.execution_count + 1 > budgets.max_executions
            THEN [self |-> Detector(self.recursion_level,
                                    self.parent_execution_funcs,
                                    self.execution_funcs,
                                    self.execution_count + 1),
                  ret  |-> TRUE]
            ELSE [self |-> updated,
                  ret  |-> push_execution_result(updated, execution, budgets,
                                                 in_par_execution_funcs,
                                                 in_execution_funcs)]

\* Mutant of push_execution: line 125 comes after line 128, so that the
\* membership in the history is read when the target has been added.
push_execution_history_after_add(self, execution, budgets) ==
    LET in_par_execution_funcs ==
            InList(execution.base, self.parent_execution_funcs)
        updated ==
            Detector(self.recursion_level + 1,
                     Append(self.parent_execution_funcs, execution.base),
                     self.execution_funcs \cup {execution.base},
                     self.execution_count + 1)
        in_execution_funcs == execution.base \in updated.execution_funcs
    IN  [self |-> updated,
         ret  |-> push_execution_result(updated, execution, budgets,
                                        in_par_execution_funcs,
                                        in_execution_funcs)]

\* Mutant of push_execution: line 127 is not done for a container, a
\* generator or a builtin target, so that execution_count counts the pushes
\* that are not exempt.
push_execution_exempt_uncounted(self, execution, budgets) ==
    LET in_par_execution_funcs ==
            InList(execution.base, self.parent_execution_funcs)
        in_execution_funcs == execution.base \in self.execution_funcs
        exempt == \/ execution.base.kind \in {"Array", "Generator"}
                  \/ get_parent_until(execution) = builtin
        updated ==
            Detector(self.recursion_level + 1,
                     Append(self.parent_execution_funcs, execution.base),
                     self.execution_funcs \cup {execution.base},
                     IF exempt THEN self.execution_count
                               ELSE self.execution_count + 1)
    IN  [self |-> updated,
         ret  |-> push_execution_result(updated, execution, budgets,
                                        in_par_execution_funcs,
                                        in_execution_funcs)]

\* ExecutionRecursionDetector.push_execution: the detector it leaves and the
\* value it returns.
push_execution(self, execution, budgets) ==
    LET in_par_execution_funcs ==
            InList(execution.base, self.parent_execution_funcs)
        in_execution_funcs == execution.base \in self.execution_funcs
        updated ==
            Detector(self.recursion_level + 1,
                     Append(self.parent_execution_funcs, execution.base),
                     self.execution_funcs \cup {execution.base},
                     self.execution_count + 1)
    IN  [self |-> updated,
         ret  |-> push_execution_result(updated, execution, budgets,
                                        in_par_execution_funcs,
                                        in_execution_funcs)]

(* ------------------------------ calls ---------------------------------- *)
ExecUnchanged ==
    UNCHANGED <<recursion_level, parent_execution_funcs, execution_funcs,
                execution_count, settings>>

\* The calls on the one evaluator of the variables above leave the threads,
\* the other evaluators and the record of the construction alone.
AuxUnchanged ==
    UNCHANGED <<threads, owners, evaluators, heap, budgets_at_construction>>

\* A caller calls rec_detect.push_stmt(stmt).
Call_push_stmt(stmt) ==
    /\ Len(current) < MaxChain
    /\ LET r == push_stmt(current, stmt) IN
        /\ current' = r.chain
        /\ last' = Call("push_stmt", stmt, Len(current), r.ret, None,
                        r.warnings)
    /\ UNCHANGED frames
    /\ ExecUnchanged
    /\ AuxUnchanged

\* A caller calls rec_detect.pop_stmt().
Call_pop_stmt ==
    /\ LET r == pop_stmt(current) IN
        /\ current' = r.chain
        /\ last' = Call("pop_stmt", None, Len(current), None, r.exc, <<>>)
    /\ UNCHANGED frames
    /\ ExecUnchanged
    /\ AuxUnchanged

\* Mutant of run: the blocked call goes on to the pop_stmt of line 20, as the
\* run of execution_recursion_decorator does, before it returns [].
Run_blocked_extra_pop(stmt) ==
    /\ Len(frames) < MaxFrames
    /\ Len(current) < MaxChain
    /\ LET r == push_stmt(current, stmt) IN
        /\ r.ret = TRUE
        /\ current' = pop_stmt(r.chain).chain
        /\ last' = Call("run_blocked", stmt, Len(current), <<>>, None,
                        r.warnings)
    /\ UNCHANGED frames
    /\ ExecUnchanged
    /\ AuxUnchanged

\* recursion_decorator: run(evaluator, stmt) is called, by the evaluator or
\* by the wrapped function of the innermost run() in progress, and push_stmt
\* returns True: run returns [] at line 18 without calling the function.
Run_blocked(stmt) ==
    /\ Len(frames) < MaxFrames
    /\ Len(current) < MaxChain
    /\ LET r == push_stmt(current, stmt) IN
        /\ r.ret = TRUE
        /\ current' = r.chain
        /\ last' = Call("run_blocked", stmt, Len(current), <<>>, None,
                        r.warnings)
    /\ UNCHANGED frames
    /\ ExecUnchanged
    /\ AuxUnchanged

\* recursion_decorator: run(evaluator, stmt) is called and push_stmt returns
\* False: the wrapped function is entered at line 19. The frame keeps the
\* chain as it was when run was called.
Run_enter(stmt) ==
    /\ Len(frames) < MaxFrames
    /\ Len(current) < MaxChain
    /\ LET r == push_stmt(current, stmt) IN
        /\ r.ret = FALSE
        /\ current' = r.chain
        /\ frames' = Append(frames, [stmt |-> stmt, chain_before |-> current])
        /\ last' = Call("run_enter", stmt, Len(current), None, None,
                        r.warnings)
    /\ ExecUnchanged
    /\ AuxUnchanged

\* Mutant of run: the result is returned without the pop_stmt of line 20.
Run_return_no_pop ==
    /\ frames # <<>>
    /\ current' = current
    /\ frames' = SubSeq(frames, 1, Len(frames) - 1)
    /\ last' = Call("run_return", frames[Len(frames)].stmt, Len(current),
                    "result", None, <<>>)
    /\ ExecUnchanged
    /\ AuxUnchanged

\* recursion_decorator: the wrapped function of the innermost run() returns;
\* run calls pop_stmt at line 20 and returns the result at line 21.
Run_return ==
    /\ frames # <<>>
    /\ current' = pop_stmt(current).chain
    /\ frames' = SubSeq(frames, 1, Len(frames) - 1)
    /\ last' = Call("run_return", frames[Len(frames)].stmt, Len(current),
                    "result", None, <<>>)
    /\ ExecUnchanged
    /\ AuxUnchanged

\* recursion_decorator: the wrapped function of the innermost run() raises at
\* line 19; nothing in run catches, so run is left without reaching line 20.
\* The caller (the enclosing wrapped function, or the evaluator) may catch
\* the exception or be left by it in its turn.
Run_raise ==
    /\ frames # <<>>
    /\ current' = current
    /\ frames' = SubSeq(frames, 1, Len(frames) - 1)
    /\ last' = Call("run_raise", frames[Len(frames)].stmt, Len(current),
                    None, "Exception", <<>>)
    /\ ExecUnchanged
    /\ AuxUnchanged

\* The ExecutionRecursionDetector held by the variables.
detector ==
    Detector(recursion_level, parent_execution_funcs, execution_funcs,
             execution_count)

SetDetector(d) ==
    /\ recursion_level' = d.recursion_level
    /\ parent_execution_funcs' = d.parent_execution_funcs
    /\ execution_funcs' = d.execution_funcs
    /\ execution_count' = d.execution_count

\* A caller calls detector.push_execution(execution).
Call_push_execution(execution) ==
    /\ execution_count < MaxCount
    /\ recursion_level < MaxLevel
    /\ LET r == push_execution(detector, execution, settings) IN
        /\ SetDetector(r.self)
        /\ last' = Call("push_execution", execution,
                        Len(parent_execution_funcs), r.ret, None, <<>>)
    /\ UNCHANGED <<current, settings, frames>>
    /\ AuxUnchanged

\* A caller calls detector.pop_execution().
Call_pop_execution ==
    /\ LET r == pop_execution(detector) IN
        /\ SetDetector(r.self)
        /\ last' = Call("pop_execution", None, Len(parent_execution_funcs),
                        None, r.exc, <<>>)
    /\ UNCHANGED <<current, settings, frames>>
    /\ AuxUnchanged

\* Mutant of run: the blocked call returns [] at once, as the run of
\* recursion_decorator does, without reaching the pop_execution of line 95.
ExecRun_blocked_no_pop(execution) ==
    /\ execution_count < MaxCount
    /\ recursion_level < MaxLevel
    /\ Len(frames) < MaxFrames
    /\ LET pushed == push_execution(detector, execution, settings) IN
        /\ pushed.ret = TRUE
        /\ SetDetector(pushed.self)
        /\ last' = Call("exec_run_blocked", execution,
                        Len(parent_execution_funcs), <<>>, None, <<>>)
    /\ UNCHANGED <<current, settings, frames>>
    /\ AuxUnchanged

\* execution_recursion_decorator: run(execution) is called, by the evaluator
\* or by the wrapped function of the innermost run() in progress, and
\* push_execution returns True: the result is [] (line 94), the function is
\* not called, pop_execution is called (line 95) and [] is returned.
ExecRun_blocked(execution) ==
    /\ execution_count < MaxCount
    /\ recursion_level < MaxLevel
    /\ Len(frames) < MaxFrames
    /\ LET pushed == push_execution(detector, execution, settings)
           popped == pop_execution(pushed.self)
       IN
        /\ pushed.ret = TRUE
        /\ SetDetector(popped.self)
        /\ last' = Call("exec_run_blocked", execution,
                        Len(parent_execution_funcs), <<>>, popped.exc, <<>>)
    /\ UNCHANGED <<current, settings, frames>>
    /\ AuxUnchanged

\* execution_recursion_decorator: run(execution) is called and
\* push_execution returns False: the wrapped function is entered (line 94).
\* The frame keeps the detector as it was when run was called.
ExecRun_enter(execution) ==
    /\ execution_count < MaxCount
    /\ recursion_level < MaxLevel
    /\ Len(frames) < MaxFrames
    /\ LET pushed == push_execution(detector, execution, settings) IN
        /\ pushed.ret = FALSE
        /\ SetDetector(pushed.self)
        /\ frames' = Append(frames, [execution       |-> execution,
                                     detector_before |-> detector])
        /\ last' = Call("exec_run_enter", execution,
                        Len(parent_execution_funcs), None, None, <<>>)
    /\ UNCHANGED <<current, settings>>
    /\ AuxUnchanged

\* execution_recursion_decorator: the wrapped function of the innermost run()
\* returns; run calls pop_execution at line 95 and returns the result.
ExecRun_return ==
    /\ frames # <<>>
    /\ LET popped == pop_execution(detector) IN
        /\ SetDetector(popped.self)
        /\ last' = Call("exec_run_return", frames[Len(frames)].execution,
                        Len(parent_execution_funcs), "result", popped.exc,
                        <<>>)
    /\ frames' = SubSeq(frames, 1, Len(frames) - 1)
    /\ UNCHANGED <<current, settings>>
    /\ AuxUnchanged

\* execution_recursion_decorator: the wrapped function of the innermost run()
\* raises inside line 94; nothing in run catches, so run is left without
\* reaching line 95. The caller may catch the exception or be left by it.
ExecRun_raise ==
    /\ frames # <<>>
    /\ SetDetector(detector)
    /\ last' = Call("exec_run_raise", frames[Len(frames)].execution,
                    Len(parent_execution_funcs), None, "Exception", <<>>)
    /\ frames' = SubSeq(frames, 1, Len(frames) - 1)
    /\ UNCHANGED <<current, settings>>
    /\ AuxUnchanged

(* ---------------------- observation and settings ----------------------- *)
\* A caller calls rec_detect.node_statements().
Call_node_statements ==
    /\ current' = current
    /\ last' = Call("node_statements", None, Len(current),
                    node_statements(current), None, <<>>)
    /\ UNCHANGED frames
    /\ ExecUnchanged
    /\ AuxUnchanged

\* The evaluator is discarded and a new one constructed:
\* ExecutionRecursionDetector() runs __init__, which reads no setting and
\* raises nothing, whatever jedi.settings holds at that moment.
Call_init ==
    /\ SetDetector(NewDetector)
    /\ budgets_at_construction' = settings
    /\ last' = Call("__init__", settings, Len(parent_execution_funcs), None,
                    None, <<>>)
    /\ UNCHANGED <<current, settings, frames, threads, owners, evaluators,
                   heap>>

\* Some code assigns jedi.settings.<name> = value while a guard exists.
Set_settings(name, value) ==
    /\ settings[name] # value
    /\ settings' = [settings EXCEPT ![name] = value]
    /\ last' = Call("set_settings", <<name, value>>,
                    Len(parent_execution_funcs), None, None, <<>>)
    /\ UNCHANGED <<current, recursion_level, parent_execution_funcs,
                   execution_funcs, execution_count, frames, threads, owners,
                   evaluators, heap, budgets_at_construction>>

(* ------------------------- a self-recursive function ------------------- *)
\* The wrapped evaluation of a function whose body asks once for the wrapped
\* evaluation of the same function and then returns. A call of run() is made
\* by the evaluator, once, on the new guard, or by the body that was entered
\* last; a body whose nested call has ended returns.
SelfRec_may_call(execution) ==
    /\ execution.base \in Funcs
    /\ \/ frames = <<>> /\ last.op = "init"
       \/ /\ frames # <<>>
          /\ last.op = "exec_run_enter"
          /\ execution = frames[Len(frames)].execution

SelfRec_blocked(execution) ==
    /\ SelfRec_may_call(execution)
    /\ ExecRun_blocked(execution)

SelfRec_enter(execution) ==
    /\ SelfRec_may_call(execution)
    /\ ExecRun_enter(execution)

SelfRec_return ==
    /\ frames # <<>>
    /\ last.op \in {"exec_run_blocked", "exec_run_return"}
    /\ ExecRun_return

(* --------------------- two threads on one statement guard -------------- *)
\* The threads that call the one RecursionDetector of an evaluator. A call is
\* one step: the schedules in which the calls of the threads alternate as
\* wholes. Each thread pairs its calls as recursion_decorator does: a
\* pop_stmt for each of its push_stmt that returned False, innermost first.
Threads == {1, 2}

\* The statements the threads evaluate: one of each module.
ThreadStmts == [script : Modules, start_pos : {1}]

\* Mutant: each thread has a chain of its own (a thread-local guard); the
\* nodes of the other thread are not seen by _check_recursion.
RECURSIVE OwnChain(_, _, _)
OwnChain(chain, owner, t) ==
    IF chain = <<>>
        THEN <<>>
        ELSE LET rest == OwnChain(SubSeq(chain, 1, Len(chain) - 1),
                                  SubSeq(owner, 1, Len(owner) - 1), t)
             IN  IF owner[Len(owner)] = t
                    THEN Append(rest, chain[Len(chain)])
                    ELSE rest

Thread_push_stmt_thread_local(t, stmt) ==
    /\ Len(current) < MaxChain
    /\ LET r == push_stmt(OwnChain(current, owners, t), stmt) IN
        /\ current' = IF r.ret THEN current
                               ELSE Append(current, RecursionNode(stmt))
        /\ owners' = IF r.ret THEN owners ELSE Append(owners, t)
        /\ threads' = [threads EXCEPT
                         ![t] = IF r.ret THEN @ ELSE Append(@, stmt)]
        /\ last' = Call("thread_push_stmt", [thread |-> t, stmt |-> stmt],
                        Len(current), r.ret, None, r.warnings)
    /\ UNCHANGED <<frames, evaluators, heap, budgets_at_construction>>
    /\ ExecUnchanged

\* Thread t calls rec_detect.push_stmt(stmt) on the shared guard.
Thread_push_stmt(t, stmt) ==
    /\ Len(current) < MaxChain
    /\ LET r == push_stmt(current, stmt) IN
        /\ current' = r.chain
        /\ owners' = IF r.ret THEN owners ELSE Append(owners, t)
        /\ threads' = [threads EXCEPT
                         ![t] = IF r.ret THEN @ ELSE Append(@, stmt)]
        /\ last' = Call("thread_push_stmt", [thread |-> t, stmt |-> stmt],
                        Len(current), r.ret, None, r.warnings)
    /\ UNCHANGED <<frames, evaluators, heap, budgets_at_construction>>
    /\ ExecUnchanged

\* Thread t, whose innermost evaluation in progress ends, calls
\* rec_detect.pop_stmt() on the shared guard.
Thread_pop_stmt(t) ==
    /\ threads[t] # <<>>
    /\ LET r == pop_stmt(current) IN
        /\ current' = r.chain
        /\ owners' = SubSeq(owners, 1, Len(r.chain))
        /\ threads' = [threads EXCEPT
                         ![t] = SubSeq(@, 1, Len(@) - 1)]
        /\ last' = Call("thread_pop_stmt",
                        [thread |-> t, stmt |-> threads[t][Len(threads[t])]],
                        Len(current), None, r.exc, <<>>)
    /\ UNCHANGED <<frames, evaluators, heap, budgets_at_construction>>
    /\ ExecUnchanged


(* ------------------ two more evaluators, each with its guards ---------- *)
\* Evaluators constructed one after the other. The attributes of an
\* instance hold numbers, None, a chain of immutable nodes, or a reference to
\* a list or set object; list.append, list.pop and set.add change the object
\* referred to.
Evaluators == {"ev_1", "ev_2"}

\* The statements and executions these evaluators are asked to evaluate.
EvaluatorStmts ==
    {[script |-> "mod_a", start_pos |-> 1],
     [script |-> builtin, start_pos |-> 1]}
EvaluatorExecutions ==
    {[base |-> [kind |-> "Function", name |-> 1, module |-> "mod_a"]],
     [base |-> [kind |-> "Array", name |-> 1, module |-> "mod_a"]]}

\* The objects that `[]` (line 108) and `set()` (line 109) create when the
\* detector of evaluator e is constructed: new ones at every evaluation.
Allocated(e) == [list |-> <<e, "list">>, set |-> <<e, "set">>]

ObjectIds == {<<e, k>> : e \in Evaluators, k \in {"list", "set"}}

\* RecursionDetector.__init__: the attributes of the new instance.
RecursionDetector_init == [top |-> None, current |-> <<>>]

\* Mutant of __init__: the list and the set are created once and every
\* instance refers to them (a class attribute, or a mutable default value).
ExecutionRecursionDetector_init_shared(fresh) ==
    [recursion_level        |-> 0,
     parent_execution_funcs |-> Allocated("ev_1").list,
     execution_funcs        |-> Allocated("ev_1").set,
     execution_count        |-> 0]

\* ExecutionRecursionDetector.__init__: the attributes of the new instance,
\* given the two objects its `[]` and `set()` have created.
ExecutionRecursionDetector_init(fresh) ==
    [recursion_level        |-> 0,
     parent_execution_funcs |-> fresh.list,
     execution_funcs        |-> fresh.set,
     execution_count        |-> 0]

\* The ExecutionRecursionDetector of evaluator e as a value: its numbers and
\* the contents of the objects it refers to.
DetectorOf(e) ==
    LET self == evaluators[e].execution_recursion_detector IN
    Detector(self.recursion_level, heap[self.parent_execution_funcs],
             heap[self.execution_funcs], self.execution_count)

\* The chain of the RecursionDetector of evaluator e.
ChainOf(e) == evaluators[e].recursion_detector.current

\* A method of the detector of evaluator e has left it as d: the numbers are
\* assigned to the attributes, the list and the set were changed in place.
SetDetectorOf(e, d) ==
    LET self == evaluators[e].execution_recursion_detector IN
    /\ evaluators' =
          [evaluators EXCEPT
             ![e].execution_recursion_detector.recursion_level =
                    d.recursion_level,
             ![e].execution_recursion_detector.execution_count =
                    d.execution_count]
    /\ heap' =
          [o \in ObjectIds |->
              IF o = self.execution_funcs THEN d.execution_funcs
              ELSE IF o = self.parent_execution_funcs
                      THEN d.parent_execution_funcs
                      ELSE heap[o]]

EvaluatorUnchanged ==
    UNCHANGED <<current, recursion_level, parent_execution_funcs,
                execution_funcs, execution_count, settings, frames, threads,
                owners, budgets_at_construction>>

\* evaluators[e].recursion_detector.push_stmt(stmt).
Evaluator_push_stmt(e, stmt) ==
    /\ Len(ChainOf(e)) < MaxNest
    /\ LET r == push_stmt(ChainOf(e), stmt) IN
        /\ evaluators' =
              [evaluators EXCEPT ![e].recursion_detector.current = r.chain]
        /\ last' = Call("evaluator_push_stmt",
                        [evaluator |-> e, stmt |-> stmt],
                        Len(ChainOf(e)), r.ret, None, r.warnings)
    /\ UNCHANGED heap
    /\ EvaluatorUnchanged

\* evaluators[e].recursion_detector.pop_stmt().
Evaluator_pop_stmt(e) ==
    /\ LET r == pop_stmt(ChainOf(e)) IN
        /\ evaluators' =
              [evaluators EXCEPT ![e].recursion_detector.current = r.chain]
        /\ last' = Call("evaluator_pop_stmt", [evaluator |-> e],
                        Len(ChainOf(e)), None, r.exc, <<>>)
    /\ UNCHANGED heap
    /\ EvaluatorUnchanged

\* evaluators[e].execution_recursion_detector.push_execution(execution).
Evaluator_push_execution(e, execution) ==
    /\ DetectorOf(e).recursion_level < MaxNest
    /\ DetectorOf(e).execution_count < MaxNest + 1
    /\ LET r == push_execution(DetectorOf(e), execution, settings) IN
        /\ SetDetectorOf(e, r.self)
        /\ last' = Call("evaluator_push_execution",
                        [evaluator |-> e, execution |-> execution],
                        Len(DetectorOf(e).parent_execution_funcs), r.ret,
                        None, <<>>)
    /\ EvaluatorUnchanged

\* evaluators[e].execution_recursion_detector.pop_execution().
Evaluator_pop_execution(e) ==
    /\ LET r == pop_execution(DetectorOf(e)) IN
        /\ SetDetectorOf(e, r.self)
        /\ last' = Call("evaluator_pop_execution", [evaluator |-> e],
                        Len(DetectorOf(e).parent_execution_funcs), None,
                        r.exc, <<>>)
    /\ EvaluatorUnchanged

(* ---------------------------- specification ---------------------------- *)
Budgets == [max_executions                  : 1..MaxExecutions,
            max_executions_without_builtins : 1..MaxExecutions,
            max_function_recursion_level    : 1..MaxBudget,
            max_until_execution_unique      : 1..MaxBudget]

\* The state after the construction of the evaluators, whatever the settings:
\* no statement and no execution is in progress in any of them.
InitGuards ==
    /\ current = <<>>
    /\ recursion_level = NewDetector.recursion_level
    /\ parent_execution_funcs = NewDetector.parent_execution_funcs
    /\ execution_funcs = NewDetector.execution_funcs
    /\ execution_count = NewDetector.execution_count
    /\ frames = <<>>
    /\ last = NoCall
    /\ threads = [t \in Threads |-> <<>>]
    /\ owners = <<>>
    /\ evaluators =
          [e \in Evaluators |->
              [recursion_detector |-> RecursionDetector_init,
               execution_recursion_detector |->
                    ExecutionRecursionDetector_init(Allocated(e))]]
    /\ heap = [o \in ObjectIds |-> IF o[2] = "list" THEN <<>> ELSE {}]

Init ==
    /\ InitGuards
    /\ settings \in Budgets
    /\ budgets_at_construction = settings

\* The statement guard alone: the budgets, which it never reads, are fixed.
InitStmt ==
    /\ Init
    /\ settings = [max_executions                  |-> MaxExecutions,
                   max_executions_without_builtins |-> MaxExecutions,
                   max_function_recursion_level    |-> MaxBudget,
                   max_until_execution_unique      |-> MaxBudget]

\* The statement guard driven directly by its callers.
NextStmt ==
    \/ \E stmt \in Stmts : Call_push_stmt(stmt)
    \/ Call_pop_stmt

SpecStmt == InitStmt /\ [][NextStmt]_vars

\* The execution guard driven directly by its callers, under every choice of
\* the budgets.
NextExec ==
    \/ \E execution \in Executions : Call_push_execution(execution)
    \/ Call_pop_execution

SpecExec == Init /\ [][NextExec]_vars

\* The statement guard driven through recursion_decorator only.
NextStmtDeco ==
    \/ \E stmt \in Stmts : Run_blocked(stmt)
    \/ \E stmt \in Stmts : Run_enter(stmt)
    \/ Run_return
    \/ Run_raise

SpecStmtDeco == InitStmt /\ [][NextStmtDeco]_vars

\* The execution guard driven through execution_recursion_decorator only.
NextExecDeco ==
    \/ \E execution \in Executions : ExecRun_blocked(execution)
    \/ \E execution \in Executions : ExecRun_enter(execution)
    \/ ExecRun_return
    \/ ExecRun_raise

\* The budgets under which the decorator is driven: the two ceilings that
\* block a call by themselves, max_executions and
\* max_function_recursion_level, take every value; the other two are at
\* their largest.
InitExecDeco ==
    /\ Init
    /\ settings.max_executions_without_builtins = MaxExecutions
    /\ settings.max_until_execution_unique = MaxBudget

SpecExecDeco == InitExecDeco /\ [][NextExecDeco]_vars

\* recursion_decorator with wrapped functions that always return normally:
\* every push_stmt that returned False is followed by its pop_stmt, in LIFO
\* order.
NextStmtDecoNormal ==
    \/ \E stmt \in Stmts : Run_blocked(stmt)
    \/ \E stmt \in Stmts : Run_enter(stmt)
    \/ Run_return

SpecStmtDecoNormal == InitStmt /\ [][NextStmtDecoNormal]_vars

\* The statement guard driven directly, node_statements() included.
NextStmtObserved ==
    \/ \E stmt \in Stmts : Call_push_stmt(stmt)
    \/ Call_pop_stmt
    \/ Call_node_statements

SpecStmtObserved == InitStmt /\ [][NextStmtObserved]_vars

\* jedi.settings when nothing has checked it: each budget may also be 0.
UncheckedBudgets == [max_executions                  : 0..MaxExecutions,
                     max_executions_without_builtins : 0..MaxExecutions,
                     max_function_recursion_level    : 0..MaxBudget,
                     max_until_execution_unique      : 0..MaxBudget]

InitConstruct ==
    /\ InitGuards
    /\ settings \in UncheckedBudgets
    /\ budgets_at_construction = settings

\* Execution guards constructed and used under settings nobody has checked.
NextConstruct ==
    \/ Call_init
    \/ \E execution \in Executions : Call_push_execution(execution)
    \/ Call_pop_execution

SpecConstruct == InitConstruct /\ [][NextConstruct]_vars

\* The execution guard, constructed under the largest budgets, used while the
\* settings are changed.
NextSettings ==
    \/ \E name \in {"max_executions", "max_executions_without_builtins"} :
            \E value \in 1..MaxExecutions : Set_settings(name, value)
    \/ \E name \in {"max_function_recursion_level",
                     "max_until_execution_unique"} :
            \E value \in 1..MaxBudget : Set_settings(name, value)
    \/ \E execution \in Executions : Call_push_execution(execution)
    \/ Call_pop_execution

SpecSettings == InitStmt /\ [][NextSettings]_vars

\* The wrapped evaluation of a self-recursive function on a new guard. The
\* interpreter goes on with the next step of a call in progress.
NextSelfRec ==
    \/ \E execution \in Executions : SelfRec_blocked(execution)
    \/ \E execution \in Executions : SelfRec_enter(execution)
    \/ SelfRec_return

SpecSelfRec == Init /\ [][NextSelfRec]_vars /\ WF_vars(NextSelfRec)

\* Two threads on the statement guard of one evaluator.
NextThreads ==
    \/ \E t \in Threads : \E stmt \in ThreadStmts :
            Thread_push_stmt(t, stmt)
    \/ \E t \in Threads : Thread_pop_stmt(t)

SpecThreads == InitStmt /\ [][NextThreads]_vars

\* Two evaluators, each driven through its own two guards.
NextEvaluators ==
    \/ \E e \in Evaluators : \E stmt \in EvaluatorStmts :
            Evaluator_push_stmt(e, stmt)
    \/ \E e \in Evaluators : Evaluator_pop_stmt(e)
    \/ \E e \in Evaluators : \E execution \in EvaluatorExecutions :
            Evaluator_push_execution(e, execution)
    \/ \E e \in Evaluators : Evaluator_pop_execution(e)

SpecEvaluators == InitStmt /\ [][NextEvaluators]_vars

\* The statements of one user module and of the builtin module: few enough
\* for the chain to hold a node of every identity.
FewStmts == [script : {builtin, "mod_a"}, start_pos : 1..NumPositions]

\* The statement guard driven directly with these statements, and observed.
NextStmtFew ==
    \/ \E stmt \in FewStmts : Call_push_stmt(stmt)
    \/ Call_pop_stmt
    \/ Call_node_statements

SpecStmtFew == InitStmt /\ [][NextStmtFew]_vars

\* A caller that does not follow recursion_decorator: while evaluations are
\* in progress it calls push_stmt, which returns True (and has popped the new
\* node at line 40), and then calls pop_stmt all the same before it returns.
Caller_blocked_then_pop(stmt) ==
    /\ Len(frames) < MaxFrames
    /\ Len(current) < MaxChain
    /\ LET pushed == push_stmt(current, stmt)
           popped == pop_stmt(pushed.chain)
       IN
        /\ pushed.ret = TRUE
        /\ current' = popped.chain
        /\ last' = Call("blocked_then_pop", stmt, Len(current), <<>>,
                        popped.exc, pushed.warnings)
    /\ UNCHANGED frames
    /\ ExecUnchanged
    /\ AuxUnchanged

\* Wrapped evaluations that return normally, and callers among them that pop
\* after a push_stmt that returned True.
NextStmtUnpaired ==
    \/ \E stmt \in Stmts : Run_blocked(stmt)
    \/ \E stmt \in Stmts : Run_enter(stmt)
    \/ Run_return
    \/ \E stmt \in Stmts : Caller_blocked_then_pop(stmt)

SpecStmtUnpaired == InitStmt /\ [][NextStmtUnpaired]_vars

\* Statement objects told apart: two statement objects can have the same
\* module and the same position.
StmtObjects == [script : Modules, start_pos : {1}, object : {1, 2}]

\* The statement guard driven directly with these statement objects.
NextStmtObjects ==
    \/ \E stmt \in StmtObjects : Call_push_stmt(stmt)
    \/ Call_pop_stmt

SpecStmtObjects == InitStmt /\ [][NextStmtObjects]_vars

(* --------------------- two threads on one execution guard -------------- *)
\* The executions the threads evaluate: the plain functions and an Array.
ThreadExecutions ==
    [base : Funcs \cup {b \in Containers : b.kind = "Array"}]

\* The entries of the path stack that thread t appended, oldest first.
RECURSIVE OwnPath(_, _, _)
OwnPath(parents, owner, t) ==
    IF parents = <<>>
        THEN <<>>
        ELSE LET rest == OwnPath(SubSeq(parents, 1, Len(parents) - 1),
                                 SubSeq(owner, 1, Len(owner) - 1), t)
             IN  IF owner[Len(owner)] = t
                    THEN Append(rest, parents[Len(parents)])
                    ELSE rest

\* A thread makes its calls as execution_recursion_decorator does: after a
\* push_execution that returned True it does nothing but the pop_execution of
\* line 95; after one that returned False the wrapped function may make
\* further wrapped calls before the pop_execution.
ThreadMayPush(t) ==
    IF threads[t] = <<>>
        THEN TRUE
        ELSE ~ threads[t][Len(threads[t])].blocked

\* Mutant: the path stack and recursion_level are kept for each thread (a
\* thread-local guard); the entries of the other thread are not seen by the
\* depth test.
ExecThread_push_execution_thread_local(t, execution) ==
    /\ ThreadMayPush(t)
    /\ execution_count < MaxCount
    /\ recursion_level < MaxLevel
    /\ LET own == OwnPath(parent_execution_funcs, owners, t)
           r == push_execution(Detector(Len(own), own, execution_funcs,
                                        execution_count),
                               execution, settings)
       IN
        /\ SetDetector(Detector(recursion_level + 1,
                                Append(parent_execution_funcs, execution.base),
                                r.self.execution_funcs,
                                r.self.execution_count))
        /\ owners' = Append(owners, t)
        /\ threads' = [threads EXCEPT
                         ![t] = Append(@, [execution |-> execution,
                                           blocked   |-> r.ret])]
        /\ last' = Call("thread_push_execution",
                        [thread |-> t, execution |-> execution],
                        Len(parent_execution_funcs), r.ret, None, <<>>)
    /\ UNCHANGED <<current, settings, frames, evaluators, heap,
                   budgets_at_construction>>

\* Thread t calls detector.push_execution(execution) on the shared guard
\* (line 94 of its run()).
ExecThread_push_execution(t, execution) ==
    /\ ThreadMayPush(t)
    /\ execution_count < MaxCount
    /\ recursion_level < MaxLevel
    /\ LET r == push_execution(detector, execution, settings) IN
        /\ SetDetector(r.self)
        /\ owners' = Append(owners, t)
        /\ threads' = [threads EXCEPT
                         ![t] = Append(@, [execution |-> execution,
                                           blocked   |-> r.ret])]
        /\ last' = Call("thread_push_execution",
                        [thread |-> t, execution |-> execution],
                        Len(parent_execution_funcs), r.ret, None, <<>>)
    /\ UNCHANGED <<current, settings, frames, evaluators, heap,
                   budgets_at_construction>>

\* Thread t, whose innermost run() has its result, calls
\* detector.pop_execution() on the shared guard (line 95).
ExecThread_pop_execution(t) ==
    /\ threads[t] # <<>>
    /\ LET r == pop_execution(detector) IN
        /\ SetDetector(r.self)
        /\ owners' = SubSeq(owners, 1, Len(r.self.parent_execution_funcs))
        /\ threads' = [threads EXCEPT ![t] = SubSeq(@, 1, Len(@) - 1)]
        /\ last' = Call("thread_pop_execution",
                        [thread    |-> t,
                         execution |-> threads[t][Len(threads[t])].execution],
                        Len(parent_execution_funcs), None, r.exc, <<>>)
    /\ UNCHANGED <<current, settings, frames, evaluators, heap,
                   budgets_at_construction>>

\* The budgets under which the threads run: every depth ceiling, the other
\* budgets at their largest.
InitExecThreads ==
    /\ Init
    /\ settings.max_executions = MaxExecutions
    /\ settings.max_executions_without_builtins = MaxExecutions
    /\ settings.max_until_execution_unique = MaxBudget

\* Two threads on the execution guard of one evaluator; their calls alternate
\* as wholes.
NextExecThreads ==
    \/ \E t \in Threads : \E execution \in ThreadExecutions :
            ExecThread_push_execution(t, execution)
    \/ \E t \in Threads : ExecThread_pop_execution(t)

SpecExecThreads == InitExecThreads /\ [][NextExecThreads]_vars

(* ------------------- properties of the statement guard ----------------- *)
\* The statement is on the chain: it was pushed, push_stmt returned False and
\* its node has not been popped.
OnChain(chain, stmt) == \E i \in 1..Len(chain) : chain[i].stmt = stmt

\* Some node of the chain has the module and the position of the statement,
\* and neither that node nor the statement is of the builtin module.
Matches(chain, stmt) ==
    \E i \in 1..Len(chain) :
        /\ chain[i].script = stmt.script
        /\ chain[i].position = stmt.start_pos
        /\ chain[i].script # builtin
        /\ stmt.script # builtin

\* C1: a push_stmt of a statement that is on the chain and not of the builtin
\* module returns True and leaves the chain exactly as it was before the call.
C1_DirectRecursionCaught ==
    [][(/\ last'.op = "push_stmt"
        /\ last'.arg.script # builtin
        /\ OnChain(current, last'.arg))
       => (last'.ret = TRUE /\ current' = current)]_vars

\* C1 witness: a statement on the chain was pushed again and reported.
C1_Witness ==
    /\ last.op = "push_stmt"
    /\ last.arg.script # builtin
    /\ OnChain(current, last.arg)
    /\ last.ret = TRUE
    /\ Len(current) = last.before

\* C2: push_stmt returns True exactly when some node already on the chain
\* matches the new statement (any ancestor); when it returns False the new
\* node is the current node, on top of the chain as it was.
C2_PushStmtIffAncestorMatches ==
    [][last'.op = "push_stmt"
       => /\ last'.ret = Matches(current, last'.arg)
          /\ (last'.ret = FALSE
                => current' = Append(current, RecursionNode(last'.arg)))]_vars

\* C2 witness: a push was reported although the immediate parent is another
\* statement, so the match is with an older ancestor.
C2_Witness ==
    /\ last.op = "push_stmt"
    /\ last.ret = TRUE
    /\ Len(current) >= 2
    /\ current[Len(current)].stmt # last.arg
    /\ OnChain(current, last.arg)

\* C3: a push_stmt of a statement of the builtin module never returns True,
\* whatever is on the chain, and its node stays pushed.
C3_BuiltinExemption ==
    [][(last'.op = "push_stmt" /\ last'.arg.script = builtin)
       => /\ last'.ret = FALSE
          /\ current' = Append(current, RecursionNode(last'.arg))]_vars

\* C3 witness: the same builtin statement is nested three deep.
C3_Witness ==
    /\ last.op = "push_stmt"
    /\ last.arg.script = builtin
    /\ last.ret = FALSE
    /\ Len(current) >= 3
    /\ \A i \in Len(current) - 2 .. Len(current) : current[i].stmt = last.arg

\* C9: pop_stmt on a guard without a current node raises nothing and leaves
\* the guard as it is: no current node, node_statements() empty.
C9_PopStmtOnEmpty ==
    [][(last'.op = "pop_stmt" /\ current = <<>>)
       => /\ last'.exc = None
          /\ current' = <<>>
          /\ node_statements(current') = <<>>]_vars

\* C9 witness: pop_stmt was called on a guard without a current node.
C9_Witness ==
    /\ last.op = "pop_stmt"
    /\ last.before = 0
    /\ last.exc = None
    /\ current = <<>>

\* C10: when a call of a function wrapped by recursion_decorator ends, by
\* returning [] at once, by returning the result or by the wrapped function
\* raising, the chain is the chain that existed when the call was made.
C10_RunRestoresChain ==
    [][/\ last'.op = "run_blocked" => current' = current
       /\ last'.op \in {"run_return", "run_raise"}
            => current' = frames[Len(frames)].chain_before]_vars

(* ------------------- properties of the execution guard ----------------- *)
\* Neither a container or generator nor an execution of the builtin module:
\* the execution passes the exemptions of lines 134-138.
NotExempt(execution) ==
    /\ execution.base.kind = "Function"
    /\ get_parent_until(execution) # builtin

\* The path stack holds the one target only, n >= 1 times: the pushes of that
\* target were nested in each other, starting from an empty path stack.
NestOf(parents, base) ==
    /\ parents # <<>>
    /\ \A i \in 1..Len(parents) : parents[i] = base

\* C4: a push_execution made when execution_count already exceeds
\* max_executions returns True, whatever the target, the path and the history.
C4_GlobalBudgetAbsolute ==
    [][(/\ last'.op = "push_execution"
        /\ execution_count > settings.max_executions)
       => last'.ret = TRUE]_vars

\* C4 witness: past the budget, after a pop, an exempt target that was never
\* seen before is pushed and blocked.
C4_Witness ==
    /\ last.op = "push_execution"
    /\ execution_count > settings.max_executions + 1
    /\ ~ NotExempt(last.arg)
    /\ recursion_level = 1
    /\ Cardinality(execution_funcs) >= 2
    /\ last.ret = TRUE

\* C5 as stated: in a nest of pushes of one non-exempt target, push_execution
\* returns True exactly when recursion_level exceeds
\* max_function_recursion_level.
C5_Original ==
    (/\ last.op = "push_execution"
     /\ NotExempt(last.arg)
     /\ NestOf(parent_execution_funcs, last.arg.base))
    => (last.ret = (recursion_level > settings.max_function_recursion_level))

\* C5 amended: in a nest of pushes of one non-exempt target, starting from an
\* empty path stack, push_execution returns True at every push where
\* recursion_level exceeds max_function_recursion_level; at a shallower push
\* it returns False provided execution_count exceeds neither max_executions
\* nor max_executions_without_builtins and the history is no larger than
\* max_until_execution_unique.
C5_DepthCeiling ==
    (/\ last.op = "push_execution"
     /\ NotExempt(last.arg)
     /\ NestOf(parent_execution_funcs, last.arg.base))
    => /\ recursion_level > settings.max_function_recursion_level
            => last.ret = TRUE
       /\ (/\ recursion_level <= settings.max_function_recursion_level
           /\ execution_count <= settings.max_executions
           /\ execution_count <= settings.max_executions_without_builtins
           /\ Cardinality(execution_funcs)
                    <= settings.max_until_execution_unique)
            => last.ret = FALSE

\* C5 witness: the push that makes the nest one deeper than the ceiling is
\* blocked, with the execution budgets not exceeded.
C5_Witness ==
    /\ last.op = "push_execution"
    /\ NotExempt(last.arg)
    /\ NestOf(parent_execution_funcs, last.arg.base)
    /\ recursion_level = settings.max_function_recursion_level + 1
    /\ execution_count = recursion_level
    /\ execution_count <= settings.max_executions
    /\ execution_count <= settings.max_executions_without_builtins
    /\ last.ret = TRUE

\* C6: a push_execution of a non-exempt target that is in the history returns
\* True when the history holds more than max_until_execution_unique targets.
C6_BreadthCeiling ==
    [][(/\ last'.op = "push_execution"
        /\ NotExempt(last'.arg)
        /\ last'.arg.base \in execution_funcs
        /\ Cardinality(execution_funcs) > settings.max_until_execution_unique)
       => last'.ret = TRUE]_vars

\* C6 witness: max_until_execution_unique + 1 distinct functions were pushed
\* and popped one after the other, one of them is pushed again on the empty
\* path stack and is blocked with the execution budgets not exceeded.
C6_Witness ==
    /\ last.op = "push_execution"
    /\ NotExempt(last.arg)
    /\ parent_execution_funcs = <<last.arg.base>>
    /\ execution_funcs \subseteq Funcs
    /\ Cardinality(execution_funcs) = settings.max_until_execution_unique + 1
    /\ execution_count = settings.max_until_execution_unique + 2
    /\ execution_count <= settings.max_executions
    /\ execution_count <= settings.max_executions_without_builtins
    /\ last.ret = TRUE

\* C7: len(parent_execution_funcs) equals recursion_level after every
\* completed call, a pop_execution on an empty path stack included.
C7_PathLengthIsLevel == Len(parent_execution_funcs) = recursion_level

\* C7 witness: after pushes and pops, a pop_execution was attempted on the
\* empty path stack.
C7_Witness ==
    /\ last.op = "pop_execution"
    /\ last.before = 0
    /\ execution_count > 0
    /\ recursion_level = 0

\* C8: a pop_execution called with the path stack empty raises nothing.
C8_PopExecutionOnEmptyTolerated ==
    (last.op = "pop_execution" /\ last.before = 0) => last.exc = None

\* The conditions of C12, read at a push_execution step: execution_count
\* after the increment is within max_executions, the target is not exempt,
\* the depth condition is false and the breadth condition is false.
FallsThrough ==
    /\ last'.op = "push_execution"
    /\ execution_count' <= settings.max_executions
    /\ NotExempt(last'.arg)
    /\ ~ (/\ InList(last'.arg.base, parent_execution_funcs)
          /\ recursion_level' > settings.max_function_recursion_level)
    /\ ~ (/\ last'.arg.base \in execution_funcs
          /\ Cardinality(execution_funcs')
                > settings.max_until_execution_unique)

\* C12 as stated: under these conditions push_execution returns False.
C12_Original == [][FallsThrough => last'.ret = FALSE]_vars

\* C12 amended: under these conditions push_execution returns False provided
\* execution_count after the increment does not exceed
\* max_executions_without_builtins either.
C12_FallsThroughToFalse ==
    [][(/\ FallsThrough
        /\ execution_count' <= settings.max_executions_without_builtins)
       => last'.ret = FALSE]_vars

\* C12 witness: a function that is on the path and in the history is pushed
\* again within every budget and is let through.
C12_Witness ==
    /\ last.op = "push_execution"
    /\ NotExempt(last.arg)
    /\ last.before >= 1
    /\ InList(last.arg.base,
              SubSeq(parent_execution_funcs, 1, last.before))
    /\ recursion_level <= settings.max_function_recursion_level
    /\ Cardinality(execution_funcs) <= settings.max_until_execution_unique
    /\ execution_count <= settings.max_executions
    /\ execution_count <= settings.max_executions_without_builtins
    /\ last.ret = FALSE

\* C13: a push_execution of a container, of a generator or of an execution
\* of the builtin module returns False whenever execution_count after the
\* increment is within max_executions, whatever the level, the path, the
\* history and max_executions_without_builtins.
C13_ExemptionShortCircuits ==
    (/\ last.op = "push_execution"
     /\ ~ NotExempt(last.arg)
     /\ execution_count <= settings.max_executions)
    => last.ret = FALSE

\* C13 witness: a builtin function is pushed while it is on the path, deeper
\* than the depth ceiling, with a history larger than the breadth ceiling and
\* execution_count above max_executions_without_builtins; it is let through.
C13_Witness ==
    /\ last.op = "push_execution"
    /\ last.arg.base \in BuiltinFuncs
    /\ InList(last.arg.base,
              SubSeq(parent_execution_funcs, 1, last.before))
    /\ recursion_level > settings.max_function_recursion_level
    /\ Cardinality(execution_funcs) > settings.max_until_execution_unique
    /\ execution_count > settings.max_executions_without_builtins
    /\ last.ret = FALSE

\* C17: the first push_execution on a new detector returns False, for every
\* target and all budgets of at least 1.
C17_FirstPushNotBlocked ==
    (last.op = "push_execution" /\ execution_count = 1) => last.ret = FALSE

\* C17 witness: with every budget at 1, the first push of a plain function.
C17_Witness ==
    /\ last.op = "push_execution"
    /\ execution_count = 1
    /\ NotExempt(last.arg)
    /\ settings.max_executions = 1
    /\ settings.max_executions_without_builtins = 1
    /\ settings.max_function_recursion_level = 1
    /\ settings.max_until_execution_unique = 1
    /\ last.ret = FALSE

\* C18: every push_execution, whatever it returns, adds 1 to execution_count
\* and to recursion_level, appends the target to parent_execution_funcs and
\* adds it to execution_funcs.
C18_PushSideEffects ==
    [][last'.op = "push_execution"
       => /\ execution_count' = execution_count + 1
          /\ recursion_level' = recursion_level + 1
          /\ parent_execution_funcs'
                = Append(parent_execution_funcs, last'.arg.base)
          /\ execution_funcs' = execution_funcs \cup {last'.arg.base}]_vars

\* C18 witness: a push that returned True has recorded its target.
C18_Witness ==
    /\ last.op = "push_execution"
    /\ last.ret = TRUE
    /\ Len(parent_execution_funcs) = last.before + 1
    /\ parent_execution_funcs[Len(parent_execution_funcs)] = last.arg.base
    /\ last.arg.base \in execution_funcs

\* C19: execution_count starts at 0, every push_execution adds exactly 1 to
\* it and no other call changes it: it never decreases and it is the number
\* of push_execution calls made.
C19_CountMonotonic ==
    /\ execution_count = 0
    /\ [][execution_count' = execution_count
                + (IF last'.op = "push_execution" THEN 1 ELSE 0)]_vars

\* C19 witness: after three pushes and their pops execution_count is 3.
C19_Witness ==
    /\ last.op = "pop_execution"
    /\ last.exc = None
    /\ recursion_level = 0
    /\ execution_count = 3

(* -------------------- properties of recursion_decorator ---------------- *)
\* C14: a call blocked by push_stmt returns [] without entering the wrapped
\* function, and the chain is the chain of before the call: the wrapper pops
\* nothing more.
C14_BlockedStatementNotEvaluated ==
    [][last'.op = "run_blocked"
       => /\ last'.ret = <<>>
          /\ last'.exc = None
          /\ frames' = frames
          /\ current' = current]_vars

\* C14 witness: inside a wrapped function the evaluation of a statement that
\* is on the chain was asked for again and blocked.
C14_Witness ==
    /\ last.op = "run_blocked"
    /\ last.ret = <<>>
    /\ frames # <<>>
    /\ OnChain(current, last.arg)
    /\ Len(current) = last.before

\* C16: pushes and their matching pops made in LIFO order: when every push
\* that stayed pushed has been popped, node_statements() is empty.
C16_EmptyAfterUnwind == (frames = <<>>) => (node_statements(current) = <<>>)

\* C16 witness: the outermost of the nested evaluations has just returned.
C16_Witness ==
    /\ last.op = "run_return"
    /\ last.before = 1
    /\ frames = <<>>
    /\ node_statements(current) = <<>>

\* C20: with wrapped functions that return normally, the chain has as many
\* nodes as there are wrapped evaluations in progress.
C20_ChainLengthIsCallDepth == Len(current) = Len(frames)

\* C20 witness: two evaluations are in progress, a third was blocked, and the
\* chain holds their two statements.
C20_Witness ==
    /\ last.op = "run_blocked"
    /\ Len(frames) = 2
    /\ node_statements(current) = <<frames[1].stmt, frames[2].stmt>>

(* ---------------- properties of execution_recursion_decorator ---------- *)
\* C11: when a call of a function wrapped by execution_recursion_decorator
\* ends, by being blocked, by returning the result or by the wrapped function
\* raising, recursion_level and parent_execution_funcs have the values they
\* had when the call was made.
C11_ExecRunRestoresPath ==
    [][/\ last'.op = "exec_run_blocked"
            => /\ recursion_level' = recursion_level
               /\ parent_execution_funcs' = parent_execution_funcs
       /\ last'.op \in {"exec_run_return", "exec_run_raise"}
            => LET before == frames[Len(frames)].detector_before IN
               /\ recursion_level' = before.recursion_level
               /\ parent_execution_funcs' = before.parent_execution_funcs]_vars

\* C15: a call blocked by push_execution returns [] without entering the
\* wrapped function, pop_execution runs without raising, and recursion_level
\* and parent_execution_funcs are what they were before the call.
C15_BlockedExecutionPopped ==
    [][last'.op = "exec_run_blocked"
       => /\ last'.ret = <<>>
          /\ last'.exc = None
          /\ frames' = frames
          /\ recursion_level' = recursion_level
          /\ parent_execution_funcs' = parent_execution_funcs]_vars

\* C15 witness: inside a wrapped function a nested call was blocked and the
\* path stack is the one of before that call.
C15_Witness ==
    /\ last.op = "exec_run_blocked"
    /\ last.ret = <<>>
    /\ frames # <<>>
    /\ recursion_level >= 1
    /\ Len(parent_execution_funcs) = last.before

(* ----------------------- properties of node_statements ----------------- *)
\* C23: node_statements() returns the statements of the chain from the root
\* to the current node, oldest first, as many as the chain has nodes, and
\* leaves the current node and the chain behind it as they are.
C23_NodeStatementsSnapshot ==
    [][last'.op = "node_statements"
       => /\ Len(last'.ret) = Len(current)
          /\ \A i \in 1..Len(current) : last'.ret[i] = current[i].stmt
          /\ current' = current]_vars

\* C23 witness: three statements are in progress, the first and the last
\* differ, and node_statements() was called.
C23_Witness ==
    /\ last.op = "node_statements"
    /\ Len(current) = 3
    /\ Len(last.ret) = 3
    /\ last.ret[1] # last.ret[3]
    /\ last.ret[1] = current[1].stmt

(* ---------------- more properties of the execution guard --------------- *)
\* What push_execution(execution) does when it is called on the guard as it
\* is now.
Pushed(execution) == push_execution(detector, execution, settings)

\* C26: whatever the guard has been through and whatever the target,
\* push_execution followed by pop_execution raises nothing and leaves
\* recursion_level and parent_execution_funcs as they were before the push
\* (the pop removes the target just pushed), execution_count one higher and
\* the target in execution_funcs.
C26_PushPopRoundTrip ==
    \A execution \in Executions :
        LET pushed == Pushed(execution).self
            popped == pop_execution(pushed)
        IN  /\ pushed.parent_execution_funcs
                    [Len(pushed.parent_execution_funcs)] = execution.base
            /\ popped.exc = None
            /\ popped.self.recursion_level = recursion_level
            /\ popped.self.parent_execution_funcs = parent_execution_funcs
            /\ popped.self.execution_count = execution_count + 1
            /\ popped.self.execution_funcs
                    = execution_funcs \cup {execution.base}

\* C26 witness: inside two executions in progress a third target was pushed
\* and popped: the path is the one of before, the count is 3 and the history
\* holds the three targets.
C26_Witness ==
    /\ last.op = "pop_execution"
    /\ last.exc = None
    /\ recursion_level = 2
    /\ Len(parent_execution_funcs) = 2
    /\ parent_execution_funcs[1] # parent_execution_funcs[2]
    /\ execution_count = 3
    /\ Cardinality(execution_funcs) = 3

\* C27: a push_execution of a non-exempt target that is not in the history
\* and not on the path when the call is made, with execution_count after the
\* increment within max_executions and max_executions_without_builtins,
\* returns False, however many targets the history holds after the push.
C27_BreadthTestsPriorHistory ==
    \A execution \in Executions :
        (/\ NotExempt(execution)
         /\ execution.base \notin execution_funcs
         /\ ~ InList(execution.base, parent_execution_funcs)
         /\ execution_count + 1 <= settings.max_executions
         /\ execution_count + 1 <= settings.max_executions_without_builtins)
        => Pushed(execution).ret = FALSE

\* C27 witness: every push so far was of a new target, the last one of a
\* non-exempt target; the history now holds more than
\* max_until_execution_unique targets and the push was let through.
C27_Witness ==
    /\ last.op = "push_execution"
    /\ NotExempt(last.arg)
    /\ Cardinality(execution_funcs) = execution_count
    /\ Cardinality(execution_funcs) > settings.max_until_execution_unique
    /\ execution_count <= settings.max_executions
    /\ execution_count <= settings.max_executions_without_builtins
    /\ last.ret = FALSE

\* The breadth test of lines 142-144 as it reads the guard before the push.
BreadthExceeded(execution) ==
    /\ execution.base \in execution_funcs
    /\ Cardinality(execution_funcs \cup {execution.base})
            > settings.max_until_execution_unique

\* C28: a push_execution of a non-exempt target that is not on the path when
\* the call is made returns False whatever recursion_level is, provided
\* execution_count after the increment is within max_executions and
\* max_executions_without_builtins and the breadth test does not hold.
C28_DepthNeedsSameTargetAncestor ==
    \A execution \in Executions :
        (/\ NotExempt(execution)
         /\ ~ InList(execution.base, parent_execution_funcs)
         /\ execution_count + 1 <= settings.max_executions
         /\ execution_count + 1 <= settings.max_executions_without_builtins
         /\ ~ BreadthExceeded(execution))
        => Pushed(execution).ret = FALSE

\* C28 witness: a nest of pairwise distinct targets, deeper than
\* max_function_recursion_level by two, whose innermost push, of a non-exempt
\* target, was let through.
C28_Witness ==
    /\ last.op = "push_execution"
    /\ NotExempt(last.arg)
    /\ recursion_level >= settings.max_function_recursion_level + 2
    /\ Len(parent_execution_funcs) = recursion_level
    /\ \A i, j \in 1..Len(parent_execution_funcs) :
            i # j => parent_execution_funcs[i] # parent_execution_funcs[j]
    /\ last.ret = FALSE

\* C29: every push_execution, of an exempt target too, adds 1 to
\* execution_count, and a push_execution of a non-exempt target returns True
\* whenever execution_count after the increment exceeds
\* max_executions_without_builtins.
C29_ExemptPushesConsumeBudget ==
    \A execution \in Executions :
        /\ Pushed(execution).self.execution_count = execution_count + 1
        /\ (/\ NotExempt(execution)
            /\ execution_count + 1 > settings.max_executions_without_builtins)
           => Pushed(execution).ret = TRUE

\* C29 witness: only exempt targets were pushed (and popped) before; the
\* first non-exempt target comes on the empty path, within max_executions,
\* and is blocked because the count is past max_executions_without_builtins.
C29_Witness ==
    /\ last.op = "push_execution"
    /\ NotExempt(last.arg)
    /\ parent_execution_funcs = <<last.arg.base>>
    /\ Cardinality(execution_funcs) = execution_count
    /\ execution_count >= 2
    /\ \A base \in execution_funcs \ {last.arg.base} :
            ~ NotExempt([base |-> base])
    /\ execution_count > settings.max_executions_without_builtins
    /\ execution_count <= settings.max_executions
    /\ last.ret = TRUE

(* ------------------------ properties of the budgets -------------------- *)
\* C24: the construction of an execution guard is rejected (__init__ raises)
\* when one of the four budgets is less than or equal to 0.
C24_NonPositiveBudgetRejected ==
    (/\ last.op = "__init__"
     /\ \/ settings.max_executions <= 0
        \/ settings.max_executions_without_builtins <= 0
        \/ settings.max_function_recursion_level <= 0
        \/ settings.max_until_execution_unique <= 0)
    => last.exc # None

\* C25: every push_execution returns what it would return under the settings
\* of the moment the guard was constructed, whatever has been assigned to
\* the settings since.
C25_BudgetsFixedAtConstruction ==
    [][last'.op = "push_execution"
       => last'.ret = push_execution(detector, last'.arg,
                                     budgets_at_construction).ret]_vars

(* ------------------- termination of a self-recursion ------------------- *)
\* The outermost call of the self-recursive evaluation has returned.
SelfRecFinished ==
    /\ frames = <<>>
    /\ last.op = "exec_run_return"

\* C30: the wrapped evaluation of a user function that evaluates itself
\* finishes; a nested call made at depth max_function_recursion_level (its
\* push is the one at depth max_function_recursion_level + 1) is always
\* blocked, so that no body is entered deeper than that; and when the
\* outermost call has returned recursion_level is 0 and
\* parent_execution_funcs is empty.
C30_SelfRecursionTerminates ==
    /\ <>SelfRecFinished
    /\ [][(/\ last'.op \in {"exec_run_enter", "exec_run_blocked"}
           /\ recursion_level >= settings.max_function_recursion_level)
          => last'.op = "exec_run_blocked"]_vars
    /\ [](Len(frames) <= settings.max_function_recursion_level)
    /\ [](SelfRecFinished
            => recursion_level = 0 /\ parent_execution_funcs = <<>>)

\* C30 witness: the recursion went down to the depth ceiling, where the
\* nested call was blocked with execution_count within the two execution
\* budgets, and every call has returned.
C30_Witness ==
    /\ SelfRecFinished
    /\ recursion_level = 0
    /\ parent_execution_funcs = <<>>
    /\ execution_count = settings.max_function_recursion_level + 1
    /\ settings.max_function_recursion_level = MaxBudget
    /\ execution_count <= settings.max_executions
    /\ execution_count <= settings.max_executions_without_builtins

(* ------------- properties of two threads on one statement guard -------- *)
\* The node at place i of the chain was pushed by another thread than t and
\* matches the statement.
MatchesNodeOfOther(t, stmt, i) ==
    /\ owners[i] # t
    /\ RecursionNode_eq(RecursionNode(stmt), current[i])

\* Thread t has a statement in progress that matches the statement.
MatchesOwn(t, stmt) ==
    \E i \in 1..Len(threads[t]) :
        RecursionNode_eq(RecursionNode(stmt), RecursionNode(threads[t][i]))

\* C21: the guard does not tell the threads apart. A push_stmt made by a
\* thread returns True, and pushes nothing, whenever a node pushed by the
\* other thread matches its statement, also when the thread itself has no
\* such statement in progress; a pop_stmt made by a thread removes the
\* current node also when the other thread pushed it.
C21_GuardSharedByThreads ==
    [][/\ (/\ last'.op = "thread_push_stmt"
           /\ \E i \in 1..Len(current) :
                  MatchesNodeOfOther(last'.arg.thread, last'.arg.stmt, i))
          => (last'.ret = TRUE /\ current' = current)
       /\ (/\ last'.op = "thread_pop_stmt"
           /\ current # <<>>
           /\ owners[Len(owners)] # last'.arg.thread)
          => current' = SubSeq(current, 1, Len(current) - 1)]_vars

\* C21 witness: a thread's push_stmt returned True although none of the
\* statements it has in progress matches: the matching node was pushed by
\* the other thread. That other thread has nothing in progress any more, its
\* node is still on the chain: its pop_stmt removed the node of the first.
C21_Witness ==
    /\ last.op = "thread_push_stmt"
    /\ last.ret = TRUE
    /\ ~ MatchesOwn(last.arg.thread, last.arg.stmt)
    /\ threads[last.arg.thread] # <<>>
    /\ \E i \in 1..Len(current) :
          /\ MatchesNodeOfOther(last.arg.thread, last.arg.stmt, i)
          /\ threads[owners[i]] = <<>>

(* ------------------- properties of separate evaluators ----------------- *)
\* All the guard state of evaluator e: the chain of its statement guard; the
\* counters, the path stack and the history set of its execution guard.
GuardsOf(e) == [chain |-> ChainOf(e), detector |-> DetectorOf(e)]

NonBuiltinNodes(chain) == {i \in 1..Len(chain) : ~ chain[i].is_ignored}

\* The (module, position) identities of the statements pushed that are not of
\* the builtin module.
Identities ==
    {<<stmt.script, stmt.start_pos>> :
        stmt \in {s \in FewStmts : s.script # builtin}}

\* C31: no two nodes of the chain have the same module and the same position,
\* unless they are of the builtin module; so the chain holds at most as many
\* nodes not of the builtin module as there are identities.
C31_NoDuplicateIdentity ==
    /\ \A i, j \in 1..Len(current) :
          (/\ i < j
           /\ current[i].script = current[j].script
           /\ current[i].position = current[j].position)
          => (current[i].is_ignored /\ current[j].is_ignored)
    /\ Cardinality(NonBuiltinNodes(current)) <= Cardinality(Identities)

\* C31 witness: the chain holds a node of every identity and a further push
\* of the oldest of them has just been refused.
C31_Witness ==
    /\ last.op = "push_stmt"
    /\ last.ret = TRUE
    /\ Cardinality(NonBuiltinNodes(current)) = Cardinality(Identities)
    /\ Cardinality(Identities) > 1
    /\ current[1].stmt = last.arg

(* ------------------------- the unpaired pop ---------------------------- *)
\* The evaluation of the statement is in progress: a run() entered for it has
\* not returned.
InProgress(stack, stmt) == \E i \in 1..Len(stack) : stack[i].stmt = stmt

\* C32: a pop_stmt called after a push_stmt that returned True raises
\* nothing and removes the node of an evaluation that is still in progress;
\* the chain is then shorter than the call depth, and a nested push of the
\* statement whose node was removed would return False, where it would have
\* returned True before the pop.
C32_UnpairedPopDesynchronizes ==
    [][last'.op = "blocked_then_pop"
       => /\ last'.exc = None
          /\ current # <<>>
          /\ current' = SubSeq(current, 1, Len(current) - 1)
          /\ InProgress(frames', current[Len(current)].stmt)
          /\ Len(current') < Len(frames')
          /\ (~ current[Len(current)].is_ignored
                => /\ push_stmt(current, current[Len(current)].stmt).ret = TRUE
                   /\ push_stmt(current', current[Len(current)].stmt).ret
                        = FALSE)]_vars

\* C32 witness: after an unpaired pop the statement whose node was removed,
\* not of the builtin module and still in progress, has been pushed again by
\* a nested evaluation, and push_stmt has returned False.
C32_Witness ==
    /\ last.op = "run_enter"
    /\ last.arg.script # builtin
    /\ Len(frames) >= 2
    /\ InProgress(SubSeq(frames, 1, Len(frames) - 1), last.arg)
    /\ Len(current) < Len(frames)

(* --------------------------- the diagnostic ---------------------------- *)
\* The place in the chain of the nearest node that equals the node of the
\* statement, 0 if there is none.
NearestMatch(chain, stmt) ==
    LET matching == {i \in 1..Len(chain) :
                        RecursionNode_eq(RecursionNode(stmt), chain[i])}
    IN  IF matching = {}
            THEN 0
            ELSE CHOOSE i \in matching : \A j \in matching : j <= i

\* C33: a push_stmt that returns True makes exactly one debug.warning call,
\* with the pushed statement, the statement of the nearest matching ancestor
\* and the position of the pushed statement, while the new node is still the
\* current node, and then pops that node; a push_stmt that returns False makes
\* no debug.warning call.
C33_OneDiagnosticPerCycle ==
    [][last'.op = "push_stmt"
       => /\ last'.ret = TRUE
             => /\ Len(last'.warnings) = 1
                /\ NearestMatch(current, last'.arg) # 0
                /\ last'.warnings[1].args
                      = <<last'.arg,
                          current[NearestMatch(current, last'.arg)].stmt,
                          last'.arg.start_pos>>
                /\ last'.warnings[1].current = Len(current) + 1
                /\ current' = current
          /\ last'.ret = FALSE => last'.warnings = <<>>]_vars

\* C33 witness: a push was refused and the one warning names, as the matched
\* ancestor, another statement object than the one pushed, which is not the
\* parent of the new node.
C33_Witness ==
    /\ last.op = "push_stmt"
    /\ last.ret = TRUE
    /\ Len(last.warnings) = 1
    /\ last.warnings[1].args[2] # last.arg
    /\ current[Len(current)].stmt # last.warnings[1].args[2]

(* ------------- properties of two threads on one execution guard -------- *)
\* The targets thread t has in progress, oldest first.
TargetsOf(t) == [i \in 1..Len(threads[t]) |-> threads[t][i].execution.base]

\* The target has an entry on the path stack that another thread than t
\* appended.
OnPathOfOther(t, base) ==
    \E i \in 1..Len(parent_execution_funcs) :
        parent_execution_funcs[i] = base /\ owners[i] # t

\* C34: the execution guard does not tell the threads apart. A
\* pop_execution made by a thread removes the last entry of the path stack
\* also when the other thread appended it; the depth test of a push_execution
\* reads the shared path stack and the shared recursion_level: a push of a
\* non-exempt target within max_executions returns True when an entry of the
\* other thread holds that target and the shared level is over the ceiling,
\* also when the calling thread has no such target in progress.
C34_PathSharedByThreads ==
    [][/\ (/\ last'.op = "thread_pop_execution"
           /\ parent_execution_funcs # <<>>
           /\ owners[Len(owners)] # last'.arg.thread)
          => /\ last'.exc = None
             /\ parent_execution_funcs'
                  = SubSeq(parent_execution_funcs, 1,
                           Len(parent_execution_funcs) - 1)
             /\ recursion_level' = recursion_level - 1
       /\ (/\ last'.op = "thread_push_execution"
           /\ NotExempt(last'.arg.execution)
           /\ execution_count + 1 <= settings.max_executions
           /\ OnPathOfOther(last'.arg.thread, last'.arg.execution.base)
           /\ recursion_level + 1 > settings.max_function_recursion_level)
          => last'.ret = TRUE]_vars

\* C34 witness: the path stack differs from the targets the calling thread
\* has in progress: the other thread, with nothing in progress any more, has
\* left an entry behind (its pop removed an entry of the calling thread). The
\* calling thread's push of that target, which it never had in progress, was
\* refused by the depth test: the other budgets are not exceeded.
C34_Witness ==
    /\ last.op = "thread_push_execution"
    /\ last.ret = TRUE
    /\ NotExempt(last.arg.execution)
    /\ ~ InList(last.arg.execution.base,
                SubSeq(TargetsOf(last.arg.thread), 1,
                       Len(threads[last.arg.thread]) - 1))
    /\ \E i \in 1..Len(parent_execution_funcs) - 1 :
          /\ parent_execution_funcs[i] = last.arg.execution.base
          /\ owners[i] # last.arg.thread
          /\ threads[owners[i]] = <<>>
    /\ parent_execution_funcs # TargetsOf(last.arg.thread)
    /\ execution_count <= settings.max_executions
    /\ execution_count <= settings.max_executions_without_builtins
    /\ Cardinality(execution_funcs) <= settings.max_until_execution_unique

(* ------------------- the path stack and the history -------------------- *)
\* C35: every target on parent_execution_funcs is a member of
\* execution_funcs, and no call removes a member from execution_funcs.
C35_PathWithinHistory ==
    /\ [](\A i \in 1..Len(parent_execution_funcs) :
              parent_execution_funcs[i] \in execution_funcs)
    /\ [][execution_funcs \subseteq execution_funcs']_vars

\* C35 witness: a pop_execution has removed a target from a path stack that
\* still holds another one; the target removed is still in execution_funcs.
C35_Witness ==
    /\ last.op = "pop_execution"
    /\ last.exc = None
    /\ parent_execution_funcs # <<>>
    /\ \E base \in execution_funcs : ~ InList(base, parent_execution_funcs)
    /\ Cardinality(execution_funcs) = 2

(* ------------------------ the sign of the level ------------------------ *)
\* C36: recursion_level is never negative; a pop_execution made when the
\* path stack is empty fails, and leaves recursion_level and
\* parent_execution_funcs as they were.
C36_LevelNeverNegative ==
    /\ [](recursion_level >= 0)
    /\ [][(last'.op = "pop_execution" /\ parent_execution_funcs = <<>>)
          => /\ last'.exc # None
             /\ recursion_level' = recursion_level
             /\ parent_execution_funcs' = parent_execution_funcs]_vars

\* C36 witness: after pushes and as many pops, one more pop_execution has
\* failed on the empty path stack and recursion_level is 0.
C36_Witness ==
    /\ last.op = "pop_execution"
    /\ last.exc # None
    /\ last.before = 0
    /\ execution_count > 0
    /\ recursion_level = 0
    /\ parent_execution_funcs = <<>>

====
